---- MODULE Spec2Model ----
(***************************************************************************)
(* Model of the Gmail/Calendar backend: the credential store and the OAuth *)
(* callback upsert (routes/auth.py), the local mirror of remote messages   *)
(* (routes/email.py), the calendar routes (routes/calendar.py), the        *)
(* Gateway's operations and message parsing (extra/service.py), the        *)
(* provider-error normalization helpers (exception_handling.py), and       *)
(* requests served side by side, each with its own database session.       *)
(***************************************************************************)
EXTENDS Integers, Sequences, FiniteSets, TLC

VARIABLES
    users,      \* table "users": sequence of committed rows, id = position
    emails,     \* table "emails": sequence of committed rows, id = position
    req,        \* the last request: its handler, its parameters, the capability it built
    resp,       \* the HTTP response of the last request
    log,        \* the lines printed while serving the last request
    stmts,      \* the DML statements the last request committed
    calls,      \* the provider calls the last request made, with their outcomes
    issued,     \* provider side: the credentials issued by the last code exchange
    payload,    \* parse harness: the remote message handed to parse_message
    parsed,     \* parse harness: what parse_message returned
    signal,     \* normalization harness: the remote signal handed to the helper
    reqs,       \* the requests in flight, one per worker: position, session, pending rows
    raised      \* normalization harness: what the helper or the Gateway operation produced

vars == <<users, emails, req, resp, log, stmts, calls, issued, payload, parsed, signal, reqs, raised>>

(***************************************************************************)
(* Input sets                                                              *)
(***************************************************************************)
Addrs == {"ann@x.org", "bob@x.org"}   \* addresses the provider can resolve
UnknownAddr == "eve@x.org"            \* an address no credential record has
GoogleIds == {"", "g1", "g2"}         \* "" is the empty provider subject id
Names == {"", "Ann", "Bob"}           \* "" is the empty display name
TokenPairs == {<<"at1", "rt1">>, <<"at2", "rt2">>}   \* pairs the provider issues
None == "None"

NoResp == [op |-> "none", status |-> 0]
NoService == [token |-> None, refresh_token |-> None]
NoReq == [op |-> "none", email_id |-> 0, email |-> "", service |-> NoService]
NoIssued == [token |-> None, refresh_token |-> None]
NoPayload == [mimeType |-> None, data |-> "", parts |-> <<>>]
NoParsed == [op |-> "none"]
NoSignal == [kind |-> None, status |-> 0, body |-> ""]
NoRaised == [op |-> "none"]

(***************************************************************************)
(* Generic helpers                                                         *)
(***************************************************************************)
Range(s) == {s[i] : i \in 1..Len(s)}

\* Query.first(): the position of the first row among those satisfying the
\* filter, 0 if none
First(matching) ==
    IF matching = {} THEN 0
    ELSE CHOOSE i \in matching : \A j \in matching : i <= j

\* the statements a flush emits: an INSERT carries no column list here, an
\* UPDATE names the columns whose value changed and is not emitted for none
Insert(table) == [op |-> "INSERT", table |-> table, cols |-> {}]

Update(table, old, new) ==
    LET cols == {c \in DOMAIN old : old[c] # new[c]} IN
    IF cols = {} THEN {} ELSE {[op |-> "UPDATE", table |-> table, cols |-> cols]}

(***************************************************************************)
(* Table "users" (database.py) and the OAuth callback (routes/auth.py)     *)
(***************************************************************************)
User(email, name, google_id, access_token, refresh_token) ==
    [email |-> email, name |-> name, google_id |-> google_id,
     access_token |-> access_token, refresh_token |-> refresh_token]

\* mutant: only users.email carries a unique constraint
UsersUniqueOk_EmailOnly(table) ==
    \A i, j \in 1..Len(table) : i # j => table[i].email # table[j].email

\* unique=True on users.email and users.google_id
UsersUniqueOk(table) ==
    \A i, j \in 1..Len(table) :
        i # j => /\ table[i].email # table[j].email
                 /\ table[i].google_id # table[j].google_id

\* mutant: the lookup compares the wrong column
UserByEmail_WrongColumn(email) == First({i \in 1..Len(users) : users[i].google_id = email})

\* db.query(User).filter(User.email == email).first()
UserByEmail(email) == First({i \in 1..Len(users) : users[i].email = email})

\* a request as the handler sees it: the path parameter email_id (0 when the
\* route has none), the address in the query or body, and the capability the
\* handler built for its provider calls (NoService when it built none)
Request(op, email_id, email, service) ==
    [op |-> op, email_id |-> email_id, email |-> email, service |-> service]

\* mutant: the capability is built from the application's own default pair
build_service_Default(access_token, refresh_token) ==
    [token |-> "at1", refresh_token |-> "rt1"]

\* GmailService.build_service: Credentials(token=access_token,
\* refresh_token=refresh_token, ...) handed to build(); nothing is cached
build_service(access_token, refresh_token) ==
    [token |-> access_token, refresh_token |-> refresh_token]

\* the capability a route builds for the record it looked up
ServiceOf(user_id) ==
    build_service(users[user_id].access_token, users[user_id].refresh_token)

\* mutant: the refresh token is only backfilled, like the identity fields
UpdateExistingUser_KeepRefresh(user, credentials, user_info) ==
    [user EXCEPT
        !.access_token = credentials.token,
        !.refresh_token = IF user.refresh_token = None THEN credentials.refresh_token ELSE @,
        !.google_id = IF user.google_id = "" THEN user_info.id ELSE @,
        !.name = IF user.name = "" THEN user_info.name ELSE @]

\* mutant: the display name is overwritten like the tokens
UpdateExistingUser_OverwriteName(user, credentials, user_info) ==
    [user EXCEPT
        !.access_token = credentials.token,
        !.refresh_token = credentials.refresh_token,
        !.google_id = IF user.google_id = "" THEN user_info.id ELSE @,
        !.name = user_info.name]

\* the body of callback's "if user:" branch
UpdateExistingUser(user, credentials, user_info) ==
    [user EXCEPT
        !.access_token = credentials.token,
        !.refresh_token = credentials.refresh_token,
        !.google_id = IF user.google_id = "" THEN user_info.id ELSE @,
        !.name = IF user.name = "" THEN user_info.name ELSE @]

\* the body of callback's "else:" branch
CreateNewUser(credentials, user_info) ==
    User(user_info.email, user_info.name, user_info.id,
         credentials.token, credentials.refresh_token)

\* the session's pending changes of callback, before db.commit()
CallbackPending(credentials, user_info) ==
    LET uid == UserByEmail(user_info.email) IN
    IF uid # 0
    THEN [users EXCEPT ![uid] = UpdateExistingUser(users[uid], credentials, user_info)]
    ELSE Append(users, CreateNewUser(credentials, user_info))

\* HTTPException(400, f"Authentication failed: {str(e)}"): detail holds str(e)
AuthFailed(detail) == [op |-> "callback", status |-> 400, detail |-> detail]

\* flow.fetch_token: the credentials it yields, or the error the provider
\* answers for a code that is invalid, expired or already redeemed
Credentials ==
    {[ok |-> TRUE, token |-> p[1], refresh_token |-> p[2], error |-> ""] : p \in TokenPairs}
ExchangeError ==
    [ok |-> FALSE, token |-> None, refresh_token |-> None, error |-> "invalid_grant"]
ExchangeErrors ==
    {[ExchangeError EXCEPT !.error = e] :
        e \in {"invalid_grant", "invalid_grant: expired", "invalid_grant: redeemed"}}

\* the identity endpoint: the identity it answers, or the failure of the
\* request (the token rejected with 401, or the endpoint unreachable)
UserInfos == [ok : {TRUE}, id : GoogleIds, email : Addrs, name : Names, error : {""}]
NoUserInfo == [ok |-> FALSE, id |-> "", email |-> UnknownAddr, name |-> "", error |-> ""]
IdentityFailures ==
    {[NoUserInfo EXCEPT !.error = e] : e \in {"401 Unauthorized", "ConnectionError"}}

\* a provider call as the request log keeps it: the operation, the message id
\* and label change it names, its outcome, and the number of items a list call
\* returned
Call(op, id, arg, result, returned) ==
    [op |-> op, id |-> id, arg |-> arg, result |-> result, returned |-> returned]

\* mutant: the exchange is attempted again after a failure
exchange_code_for_tokens_Retry(exchange) ==
    [raised |-> ~exchange.ok,
     credentials |-> exchange,
     calls |-> IF exchange.ok THEN <<Call("fetch_token", "", "", "ok", 0)>>
               ELSE <<Call("fetch_token", "", "", exchange.error, 0),
                      Call("fetch_token", "", "", exchange.error, 0)>>]

\* GmailService.exchange_code_for_tokens: one flow.fetch_token(code=code), whose
\* exception is not caught here
exchange_code_for_tokens(exchange) ==
    [raised |-> ~exchange.ok,
     credentials |-> exchange,
     calls |-> <<Call("fetch_token", "", "", IF exchange.ok THEN "ok" ELSE exchange.error, 0)>>]

\* mutant: the failure of the identity request is not caught
get_user_info_Raises(answer) ==
    [raised |-> ~answer.ok,
     info |-> IF answer.ok THEN answer ELSE NoUserInfo,
     log |-> <<>>,
     calls |-> <<Call("userinfo", "", "", IF answer.ok THEN "ok" ELSE answer.error, 0)>>]

\* GmailService.get_user_info: any exception of the request or of
\* raise_for_status is printed and becomes None
get_user_info(answer) ==
    [raised |-> FALSE,
     info |-> IF answer.ok THEN answer ELSE NoUserInfo,
     log |-> IF answer.ok THEN <<>> ELSE <<"Error getting user info">>,
     calls |-> <<Call("userinfo", "", "", IF answer.ok THEN "ok" ELSE answer.error, 0)>>]

\* GET /auth/callback
\*   code:      TRUE when the query string carries a code
\*   exchange:  what flow.fetch_token meets at the provider
\*   user_info: what the identity endpoint answers
callback(code, exchange, user_info) ==
    /\ UNCHANGED <<emails, reqs, payload, parsed, signal, raised>>
    /\ req' = Request("callback", 0, "", NoService)
    /\ IF ~code
       THEN /\ resp' = AuthFailed("Authorization code not provided")
            /\ stmts' = {} /\ log' = <<>> /\ calls' = <<>>
            /\ UNCHANGED <<users, issued>>
       ELSE LET exchanged == exchange_code_for_tokens(exchange) IN
       IF exchanged.raised
       THEN /\ resp' = AuthFailed(exchange.error)    \* except Exception: db.rollback()
            /\ stmts' = {} /\ log' = <<>>
            /\ calls' = exchanged.calls
            /\ UNCHANGED <<users, issued>>
       ELSE LET credentials == exchanged.credentials
                got == get_user_info(user_info)
            IN
            /\ issued' = [token |-> credentials.token,
                          refresh_token |-> credentials.refresh_token]
            /\ log' = got.log
            /\ calls' = exchanged.calls \o got.calls
            /\ IF got.raised
               THEN /\ resp' = AuthFailed(user_info.error)
                    /\ stmts' = {}
                    /\ UNCHANGED users
               ELSE IF ~got.info.ok
               THEN /\ resp' = AuthFailed("Failed to get user info")
                    /\ stmts' = {}
                    /\ UNCHANGED users
               ELSE LET uid == UserByEmail(got.info.email)
                        pending == CallbackPending(credentials, got.info)
                    IN
                    IF UsersUniqueOk(pending)
                    THEN /\ users' = pending             \* db.commit()
                         /\ stmts' = IF uid = 0 THEN {Insert("users")}
                                      ELSE Update("users", users[uid], pending[uid])
                         /\ resp' = [op |-> "callback", status |-> 307,
                                     email |-> got.info.email,
                                     name |-> pending[IF uid = 0 THEN Len(pending)
                                                      ELSE uid].name]
                    ELSE /\ UNCHANGED users               \* db.rollback()
                         /\ stmts' = {}
                         /\ resp' = AuthFailed("IntegrityError")

Callback ==
    \/ callback(FALSE, ExchangeError, NoUserInfo)
    \/ \E exchange \in ExchangeErrors : callback(TRUE, exchange, NoUserInfo)
    \/ \E exchange \in Credentials, user_info \in IdentityFailures :
          callback(TRUE, exchange, user_info)
    \/ \E exchange \in Credentials, user_info \in UserInfos :
          callback(TRUE, exchange, user_info)

(***************************************************************************)
(* The remote mailbox: the messages the provider serves                    *)
(***************************************************************************)
MessageIds == {"m1", "m2"}            \* remote message ids
MaxListing == 2                       \* longest listing one sync receives

Part(mimeType, data, parts) == [mimeType |-> mimeType, data |-> data, parts |-> parts]

\* the Date headers of the model, in time order
Dates == <<"Thu, 01 Jan 2026 09:00:00 +0000", "Fri, 02 Jan 2026 09:00:00 +0000">>

\* users().messages().get(id, format='full'): the message the provider holds
RemoteMessage(id) ==
    [id |-> id,
     labelIds |-> IF id = "m1" THEN {"INBOX", "UNREAD"} ELSE {"INBOX", "STARRED"},
     payload |->
        [headers |-> << [name |-> "Subject",
                         value |-> IF id = "m1" THEN <<"h", "i">> ELSE <<"y", "o">>],
                        [name |-> "From",
                         value |-> IF id = "m1" THEN <<"a", "n", "n">> ELSE <<"b", "o", "b">>],
                        [name |-> "Date",
                         value |-> IF id = "m1" THEN Dates[2] ELSE Dates[1]] >>,
         mimeType |-> "multipart/alternative",
         data |-> "",
         parts |-> << Part("text/plain", "QQ==", <<>>),
                      Part("text/html", "Qg==", <<>>) >>]]

\* datetime.now() while the model runs: later than every Date header
Now == Len(Dates) + 1

\* the same message with a text/plain body that is not valid UTF-8
MalformedMessage(id) ==
    [RemoteMessage(id) EXCEPT !.payload.parts[1].data = "_w=="]

(***************************************************************************)
(* GmailService.parse_message (extra/service.py)                           *)
(***************************************************************************)
\* base64.urlsafe_b64decode on the data strings of the model: the bytes, or
\* binascii.Error for a string whose padding is wrong
B64Table ==
    [d \in {"QQ==", "Qg==", "_w=="} |->
        CASE d = "QQ==" -> <<65>> [] d = "Qg==" -> <<66>> [] d = "_w==" -> <<255>>]

urlsafe_b64decode(data) ==
    IF data \in DOMAIN B64Table
    THEN [raised |-> FALSE, bytes |-> B64Table[data]]
    ELSE [raised |-> TRUE, bytes |-> <<>>]

\* bytes.decode('utf-8') on single-byte code points: ASCII, or UnicodeDecodeError
Utf8Char(b) == CASE b = 65 -> "A" [] b = 66 -> "B" [] OTHER -> "?"

utf8_decode(bytes) ==
    IF \A i \in 1..Len(bytes) : bytes[i] < 128
    THEN [raised |-> FALSE, text |-> [i \in 1..Len(bytes) |-> Utf8Char(bytes[i])]]
    ELSE [raised |-> TRUE, text |-> <<>>]

\* base64.urlsafe_b64decode(data).decode('utf-8')
DecodeBody(data) ==
    LET b == urlsafe_b64decode(data) IN
    IF b.raised THEN [raised |-> TRUE, text |-> <<>>] ELSE utf8_decode(b.bytes)

NoBody == [body_text |-> <<>>, body_html |-> <<>>, raised |-> FALSE]

RECURSIVE extract_body(_, _)
RECURSIVE extract_parts(_, _, _)

\* parse_message.extract_body: acc holds the nonlocal body_text and body_html
extract_body(part, acc) ==
    IF acc.raised THEN acc
    ELSE IF part.mimeType = "text/plain"
    THEN IF part.data # ""
         THEN LET d == DecodeBody(part.data) IN
              IF d.raised THEN [acc EXCEPT !.raised = TRUE]
              ELSE [acc EXCEPT !.body_text = d.text]
         ELSE acc
    ELSE IF part.mimeType = "text/html"
    THEN IF part.data # ""
         THEN LET d == DecodeBody(part.data) IN
              IF d.raised THEN [acc EXCEPT !.raised = TRUE]
              ELSE [acc EXCEPT !.body_html = d.text]
         ELSE acc
    ELSE IF part.parts # <<>>
    THEN extract_parts(part.parts, 1, acc)
    ELSE acc

\* the loop "for subpart in part['parts']: extract_body(subpart)"
extract_parts(parts, i, acc) ==
    IF i > Len(parts) THEN acc
    ELSE extract_parts(parts, i + 1, extract_body(parts[i], acc))

\* next((h['value'] for h in headers if h['name'] == name), '')
HeaderValue(headers, name, default) ==
    IF \E i \in 1..Len(headers) : headers[i].name = name
    THEN headers[CHOOSE i \in 1..Len(headers) :
                    /\ headers[i].name = name
                    /\ \A j \in 1..(i - 1) : headers[j].name # name].value
    ELSE default

\* mktime_tz(parsedate_tz(date)) inside the bare try/except: the time of a
\* well-formed Date header, else the clock value held in received_at
ParseDate(date, now) ==
    IF \E t \in 1..Len(Dates) : Dates[t] = date
    THEN CHOOSE t \in 1..Len(Dates) : Dates[t] = date
    ELSE now

\* GmailService.parse_message: the dict it returns, or raised
parse_message(message, now) ==
    LET headers == message.payload.headers
        body == extract_body(message.payload, NoBody)
    IN  [raised |-> body.raised,
         message_id |-> message.id,
         subject |-> HeaderValue(headers, "Subject", <<>>),
         sender |-> HeaderValue(headers, "From", <<>>),
         body_text |-> body.body_text,
         body_html |-> body.body_html,
         received_at |-> ParseDate(HeaderValue(headers, "Date", ""), now),
         is_read |-> "UNREAD" \notin message.labelIds,
         is_starred |-> "STARRED" \in message.labelIds]

(***************************************************************************)
(* Table "emails" (database.py) and POST /emails/sync (routes/email.py)    *)
(***************************************************************************)
\* Email(user_id=user.id, **parsed_message), is_deleted defaulting to False
Email(user_id, p) ==
    [message_id |-> p.message_id, user_id |-> user_id,
     subject |-> p.subject, sender |-> p.sender,
     body_text |-> p.body_text, body_html |-> p.body_html,
     received_at |-> p.received_at,
     is_read |-> p.is_read, is_starred |-> p.is_starred, is_deleted |-> FALSE]

\* mutant: the column carries no unique constraint
EmailsUniqueOk_NoConstraint(table) == Len(table) >= 0

\* unique=True on emails.message_id
EmailsUniqueOk(table) ==
    \A i, j \in 1..Len(table) : i # j => table[i].message_id # table[j].message_id

\* mutant: the lookup skips the soft-deleted rows
ExistingEmail_LiveOnly(message_id) ==
    First({i \in 1..Len(emails) : /\ emails[i].message_id = message_id
                                  /\ ~emails[i].is_deleted})

\* db.query(Email).filter(Email.message_id == msg['id']).first(): the session
\* does not autoflush, so the query sees the committed rows only
ExistingEmail(message_id) ==
    First({i \in 1..Len(emails) : emails[i].message_id = message_id})

ListOutcomes == {"ok", "http_error", "transport_error"}
FetchOutcomes == {"ok", "malformed", "http_error", "transport_error"}

\* GmailService.list_messages: HttpError is printed and becomes []
list_messages(outcome, messages) ==
    [raised |-> outcome = "transport_error",
     messages |-> IF outcome = "ok" THEN messages ELSE <<>>,
     log |-> IF outcome = "http_error" THEN <<"Error listing messages">> ELSE <<>>]

\* mutant: a bare "except Exception" that swallows every failure
get_message_CatchAll(message_id, outcome) ==
    [raised |-> FALSE,
     found |-> outcome \in {"ok", "malformed"},
     message |-> IF outcome = "malformed" THEN MalformedMessage(message_id)
                 ELSE RemoteMessage(message_id),
     log |-> IF outcome \in {"http_error", "transport_error"}
             THEN <<"Error getting message">> ELSE <<>>,
     calls |-> <<Call("get", message_id, "", outcome, 0)>>]

\* mutant: a failed get is issued once more
get_message_Retry(message_id, outcome) ==
    [raised |-> outcome = "transport_error",
     found |-> outcome \in {"ok", "malformed"},
     message |-> IF outcome = "malformed" THEN MalformedMessage(message_id)
                 ELSE RemoteMessage(message_id),
     log |-> IF outcome = "http_error" THEN <<"Error getting message">> ELSE <<>>,
     calls |-> IF outcome \in {"ok", "malformed"}
               THEN <<Call("get", message_id, "", outcome, 0)>>
               ELSE <<Call("get", message_id, "", outcome, 0),
                      Call("get", message_id, "", outcome, 0)>>]

\* GmailService.get_message: one execute(); HttpError is printed and becomes
\* None
get_message(message_id, outcome) ==
    [raised |-> outcome = "transport_error",
     found |-> outcome \in {"ok", "malformed"},
     message |-> IF outcome = "malformed" THEN MalformedMessage(message_id)
                 ELSE RemoteMessage(message_id),
     log |-> IF outcome = "http_error" THEN <<"Error getting message">> ELSE <<>>,
     calls |-> <<Call("get", message_id, "", outcome, 0)>>]

NoSync == [pending |-> <<>>, raised |-> "", log |-> <<>>, calls |-> <<>>]

RECURSIVE SyncLoop(_, _, _, _, _)

\* the loop "for msg in messages" of sync_emails; acc.raised names the
\* exception that left the loop
SyncLoop(user_id, messages, fetches, i, acc) ==
    IF i > Len(messages) \/ acc.raised # "" THEN acc
    ELSE IF ExistingEmail(messages[i]) # 0
    THEN SyncLoop(user_id, messages, fetches, i + 1, acc)
    ELSE LET full == get_message(messages[i], fetches[i])
             called == [acc EXCEPT
                          !.calls = @ \o full.calls,
                          !.log = @ \o full.log]
         IN  IF full.raised THEN [called EXCEPT !.raised = "TransportError"]
             ELSE IF ~full.found
             THEN SyncLoop(user_id, messages, fetches, i + 1, called)
             ELSE LET p == parse_message(full.message, Now) IN
                  IF p.raised THEN [called EXCEPT !.raised = "UnicodeDecodeError"]
                  ELSE SyncLoop(user_id, messages, fetches, i + 1,
                                [called EXCEPT !.pending = Append(@, Email(user_id, p))])

NotFound(op, detail) == [op |-> op, status |-> 404, detail |-> detail]
SyncFailed(e) == [op |-> "sync_emails", status |-> 500, detail |-> e]

\* mutant: the rows added before the exception are committed
SyncOutcome_CommitOnError(done) ==
    IF done.raised # ""
    THEN [emails |-> emails \o done.pending, stmts |-> {Insert("emails")},
          resp |-> SyncFailed(done.raised)]
    ELSE [emails |-> emails \o done.pending, stmts |-> {Insert("emails")},
          resp |-> [op |-> "sync_emails", status |-> 200,
                    synced_count |-> Len(done.pending)]]

\* mutant: rows whose id is already stored are left out of the commit, which
\* then succeeds
SyncOutcome_SkipDuplicates(done) ==
    IF done.raised # ""
    THEN [emails |-> emails, stmts |-> {}, resp |-> SyncFailed(done.raised)]
    ELSE LET fresh == SelectSeq(done.pending,
                         LAMBDA r : \A j \in 1..Len(emails) :
                                        emails[j].message_id # r.message_id)
         IN  [emails |-> emails \o fresh,
              stmts |-> IF fresh = <<>> THEN {} ELSE {Insert("emails")},
              resp |-> [op |-> "sync_emails", status |-> 200,
                        synced_count |-> Len(done.pending)]]

\* the end of sync_emails: db.commit() and the count, or db.rollback() and 500
\* when the loop or the commit raised
SyncOutcome(done) ==
    IF done.raised # ""
    THEN [emails |-> emails, stmts |-> {}, resp |-> SyncFailed(done.raised)]
    ELSE IF EmailsUniqueOk(emails \o done.pending)
    THEN [emails |-> emails \o done.pending,
          stmts |-> IF done.pending = <<>> THEN {} ELSE {Insert("emails")},
          resp |-> [op |-> "sync_emails", status |-> 200,
                    synced_count |-> Len(done.pending)]]
    ELSE [emails |-> emails, stmts |-> {}, resp |-> SyncFailed("IntegrityError")]

\* POST /emails/sync
\*   listing: the outcome of the list call; messages: the ids it lists;
\*   fetches: the outcome of the get call for each listed position
sync_emails(email, listing, messages, fetches) ==
    LET user_id == UserByEmail(email) IN
    /\ UNCHANGED <<users, issued, reqs, payload, parsed, signal, raised>>
    /\ req' = Request("sync_emails", 0, email,
                    IF user_id = 0 THEN NoService ELSE ServiceOf(user_id))
    /\ IF user_id = 0
       THEN /\ resp' = NotFound("sync_emails", "User not found")
            /\ log' = <<>> /\ calls' = <<>> /\ stmts' = {}
            /\ UNCHANGED emails
       ELSE LET listed == list_messages(listing, messages)
                start == [NoSync EXCEPT
                            !.log = listed.log,
                            !.calls = <<Call("list", "", "", listing, Len(listed.messages))>>]
                done == IF listed.raised THEN [start EXCEPT !.raised = "TransportError"]
                        ELSE SyncLoop(user_id, listed.messages, fetches, 1, start)
                out == SyncOutcome(done)
            IN  /\ log' = done.log
                /\ calls' = done.calls
                /\ emails' = out.emails
                /\ stmts' = out.stmts
                /\ resp' = out.resp

Listings == UNION {[1..n -> MessageIds] : n \in 0..MaxListing}

\* the outcomes of the get calls of one sync: a position whose id is already
\* mirrored is skipped without a call and so has no outcome to choose
FetchesFor(messages, outcomes) ==
    {f \in [1..Len(messages) -> outcomes] :
        \A i \in 1..Len(messages) : ExistingEmail(messages[i]) # 0 => f[i] = "ok"}

\* a sync request with every outcome the provider can produce
SyncEmails ==
    \/ sync_emails(UnknownAddr, "ok", <<>>, <<>>)
    \/ \E email \in Addrs, listing \in ListOutcomes \ {"ok"} :
          sync_emails(email, listing, <<>>, <<>>)
    \/ \E email \in Addrs, messages \in Listings :
          \E fetches \in FetchesFor(messages, FetchOutcomes) :
             sync_emails(email, "ok", messages, fetches)

\* a sync request whose provider calls all succeed
SyncEmailsOk ==
    \E email \in Addrs, messages \in Listings :
        sync_emails(email, "ok", messages, [i \in 1..Len(messages) |-> "ok"])

(***************************************************************************)
(* GET /emails/{id}, PUT /emails/{id}/star[/add|/remove], DELETE           *)
(***************************************************************************)
\* db.query(Email).filter(Email.id == email_id, Email.user_id == user.id,
\*                        Email.is_deleted == False).first()
\* mutant: the lookup has no is_deleted filter
LiveEmail_IgnoresDeleted(email_id, user_id) ==
    IF /\ email_id \in 1..Len(emails)
       /\ emails[email_id].user_id = user_id
    THEN email_id ELSE 0

\* mutant: the lookup has no user_id filter
LiveEmail_AnyOwner(email_id, user_id) ==
    IF /\ email_id \in 1..Len(emails)
       /\ ~emails[email_id].is_deleted
    THEN email_id ELSE 0

LiveEmail(email_id, user_id) ==
    IF /\ email_id \in 1..Len(emails)
       /\ emails[email_id].user_id = user_id
       /\ ~emails[email_id].is_deleted
    THEN email_id ELSE 0

\* db.query(Email).filter(Email.id == email_id, Email.user_id == user.id).first()
OwnedEmail(email_id, user_id) ==
    IF email_id \in 1..Len(emails) /\ emails[email_id].user_id = user_id
    THEN email_id ELSE 0

ModifyOutcomes == {"ok", "http_error", "transport_error"}

\* GmailService.modify_message inside the route's try/except: HttpError is
\* printed by the Gateway and becomes None, any other exception is printed by
\* the route; neither leaves the route
modify_message(message_id, arg, outcome, route_line) ==
    [calls |-> <<Call("modify", message_id, arg, outcome, 0)>>,
     log |-> CASE outcome = "http_error" -> <<"Error modifying message">>
               [] outcome = "transport_error" -> <<route_line>>
               [] OTHER -> <<>>]

Ok(op, is_starred) == [op |-> op, status |-> 200, is_starred |-> is_starred]

\* mutant: the flag is written back as it was read
ToggledStar_Identity(is_starred) == is_starred /\ TRUE

\* mutant: the route stars instead of toggling
ToggledStar_AlwaysStar(is_starred) == is_starred \/ TRUE

\* the flip "email_record.is_starred = not email_record.is_starred"
ToggledStar(is_starred) == ~is_starred

\* PUT /emails/{email_id}/star
toggle_star_email(email_id, email, outcome) ==
    LET user_id == UserByEmail(email)
        id == LiveEmail(email_id, user_id)
    IN
    /\ UNCHANGED <<users, issued, reqs, payload, parsed, signal, raised>>
    /\ req' = Request("toggle_star_email", email_id, email,
                    IF user_id = 0 \/ id = 0 THEN NoService ELSE ServiceOf(user_id))
    /\ IF user_id = 0
       THEN /\ resp' = NotFound("toggle_star_email", "User not found")
            /\ log' = <<>> /\ calls' = <<>> /\ stmts' = {}
            /\ UNCHANGED emails
       ELSE IF id = 0
       THEN /\ resp' = NotFound("toggle_star_email", "Email not found")
            /\ log' = <<>> /\ calls' = <<>> /\ stmts' = {}
            /\ UNCHANGED emails
       ELSE LET starred == ToggledStar(emails[id].is_starred)
                remote == modify_message(emails[id].message_id,
                              IF starred THEN "add STARRED" ELSE "remove STARRED",
                              outcome, "Failed to update star status in Gmail")
            IN  /\ emails' = [emails EXCEPT ![id].is_starred = starred]   \* db.commit()
                /\ stmts' = Update("emails", emails[id], emails'[id])
                /\ calls' = remote.calls
                /\ log' = remote.log
                /\ resp' = Ok("toggle_star_email", emails'[id].is_starred)

\* PUT /emails/{email_id}/star/add
star_email(email_id, email, outcome) ==
    LET user_id == UserByEmail(email)
        id == LiveEmail(email_id, user_id)
    IN
    /\ UNCHANGED <<users, issued, reqs, payload, parsed, signal, raised>>
    /\ req' = Request("star_email", email_id, email,
                    IF user_id = 0 \/ id = 0 \/ emails[id].is_starred THEN NoService
                    ELSE ServiceOf(user_id))
    /\ IF user_id = 0
       THEN /\ resp' = NotFound("star_email", "User not found")
            /\ log' = <<>> /\ calls' = <<>> /\ stmts' = {}
            /\ UNCHANGED emails
       ELSE IF id = 0
       THEN /\ resp' = NotFound("star_email", "Email not found")
            /\ log' = <<>> /\ calls' = <<>> /\ stmts' = {}
            /\ UNCHANGED emails
       ELSE IF emails[id].is_starred
       THEN /\ resp' = Ok("star_email", TRUE)
            /\ log' = <<>> /\ calls' = <<>> /\ stmts' = {}
            /\ UNCHANGED emails
       ELSE LET remote == modify_message(emails[id].message_id, "add STARRED",
                                         outcome, "Failed to star email in Gmail")
            IN  /\ emails' = [emails EXCEPT ![id].is_starred = TRUE]      \* db.commit()
                /\ stmts' = Update("emails", emails[id], emails'[id])
                /\ calls' = remote.calls
                /\ log' = remote.log
                /\ resp' = Ok("star_email", TRUE)

\* PUT /emails/{email_id}/star/remove
unstar_email(email_id, email, outcome) ==
    LET user_id == UserByEmail(email)
        id == LiveEmail(email_id, user_id)
    IN
    /\ UNCHANGED <<users, issued, reqs, payload, parsed, signal, raised>>
    /\ req' = Request("unstar_email", email_id, email,
                    IF user_id = 0 \/ id = 0 \/ ~emails[id].is_starred THEN NoService
                    ELSE ServiceOf(user_id))
    /\ IF user_id = 0
       THEN /\ resp' = NotFound("unstar_email", "User not found")
            /\ log' = <<>> /\ calls' = <<>> /\ stmts' = {}
            /\ UNCHANGED emails
       ELSE IF id = 0
       THEN /\ resp' = NotFound("unstar_email", "Email not found")
            /\ log' = <<>> /\ calls' = <<>> /\ stmts' = {}
            /\ UNCHANGED emails
       ELSE IF ~emails[id].is_starred
       THEN /\ resp' = Ok("unstar_email", FALSE)
            /\ log' = <<>> /\ calls' = <<>> /\ stmts' = {}
            /\ UNCHANGED emails
       ELSE LET remote == modify_message(emails[id].message_id, "remove STARRED",
                                         outcome, "Failed to unstar email in Gmail")
            IN  /\ emails' = [emails EXCEPT ![id].is_starred = FALSE]     \* db.commit()
                /\ stmts' = Update("emails", emails[id], emails'[id])
                /\ calls' = remote.calls
                /\ log' = remote.log
                /\ resp' = Ok("unstar_email", FALSE)

\* GET /emails/{email_id}: returns the record and marks it read
get_email(email_id, email) ==
    LET user_id == UserByEmail(email)
        id == LiveEmail(email_id, user_id)
    IN
    /\ UNCHANGED <<users, issued, reqs, payload, parsed, signal, raised>>
    /\ req' = Request("get_email", email_id, email, NoService)
    /\ log' = <<>> /\ calls' = <<>>
    /\ IF user_id = 0
       THEN /\ resp' = NotFound("get_email", "User not found")
            /\ stmts' = {}
            /\ UNCHANGED emails
       ELSE IF id = 0
       THEN /\ resp' = NotFound("get_email", "Email not found")
            /\ stmts' = {}
            /\ UNCHANGED emails
       ELSE /\ emails' = [emails EXCEPT ![id].is_read = TRUE]             \* db.commit()
            /\ stmts' = Update("emails", emails[id], emails'[id])
            /\ resp' = [op |-> "get_email", status |-> 200, id |-> id,
                        email |-> emails'[id]]

\* mutant: the row is removed from the table
SoftDeleted_Removes(table, id) ==
    [k \in 1..(Len(table) - 1) |-> IF k < id THEN table[k] ELSE table[k + 1]]

\* "email_record.is_deleted = True": the row stays in the table
SoftDeleted(table, id) == [table EXCEPT ![id].is_deleted = TRUE]

\* DELETE /emails/{email_id}: the soft delete
delete_email(email_id, email) ==
    LET user_id == UserByEmail(email)
        id == OwnedEmail(email_id, user_id)
    IN
    /\ UNCHANGED <<users, issued, reqs, payload, parsed, signal, raised>>
    /\ req' = Request("delete_email", email_id, email, NoService)
    /\ log' = <<>> /\ calls' = <<>>
    /\ IF user_id = 0
       THEN /\ resp' = NotFound("delete_email", "User not found")
            /\ stmts' = {}
            /\ UNCHANGED emails
       ELSE IF id = 0
       THEN /\ resp' = NotFound("delete_email", "Email not found")
            /\ stmts' = {}
            /\ UNCHANGED emails
       ELSE /\ emails' = SoftDeleted(emails, id)                          \* db.commit()
            /\ stmts' = Update("emails", emails[id],
                               [emails[id] EXCEPT !.is_deleted = TRUE])
            /\ resp' = [op |-> "delete_email", status |-> 200, id |-> id]

RequestAddrs == Addrs \cup {UnknownAddr}
EmailIds == 1..(Len(emails) + 1)      \* the ids in the table and one that is not

ToggleStarEmail ==
    \E email_id \in EmailIds, email \in RequestAddrs, outcome \in ModifyOutcomes :
        toggle_star_email(email_id, email, outcome)

StarEmail ==
    \E email_id \in EmailIds, email \in RequestAddrs, outcome \in ModifyOutcomes :
        star_email(email_id, email, outcome)

UnstarEmail ==
    \E email_id \in EmailIds, email \in RequestAddrs, outcome \in ModifyOutcomes :
        unstar_email(email_id, email, outcome)

GetEmail == \E email_id \in EmailIds, email \in RequestAddrs : get_email(email_id, email)

DeleteEmail == \E email_id \in EmailIds, email \in RequestAddrs : delete_email(email_id, email)

(***************************************************************************)
(* Requests in flight: the session of get_db (database.py) around the      *)
(* steps of sync_emails and delete_email, interleaved between two workers  *)
(***************************************************************************)
Workers == {1, 2}

NoRequest ==
    [op |-> "none", pc |-> "idle", session |-> "none", email |-> "",
     messages |-> <<>>, i |-> 0, acc |-> NoSync, target |-> 0,
     is_starred |-> FALSE, exit |-> "", resp |-> NoResp]

NoRequests == [w \in Workers |-> NoRequest]

DbOutcomes == {"ok", "OperationalError"}

\* an exception no handler catches: the server answers 500
Unhandled(op) == [op |-> op, status |-> 500, detail |-> "Internal Server Error"]

\* mutant: the session is closed on the normal return only
get_db_close_OnReturnOnly(exit) == IF exit = "return" THEN "closed" ELSE "open"

\* get_db: "finally: db.close()" runs on every way out of the request
get_db_close(exit) == IF exit \in {"return", "HTTPException", "unhandled"} THEN "closed" ELSE "open"

\* get_db: "db = SessionLocal()" as the request starts
OpenSession(w) ==
    /\ reqs[w].pc = "idle"
    /\ \E op \in {"sync_emails", "delete_email"}, email \in RequestAddrs :
          reqs' = [reqs EXCEPT ![w] =
                      [NoRequest EXCEPT !.op = op, !.email = email,
                                        !.session = "open", !.pc = "start"]]
    /\ UNCHANGED <<users, emails, req, resp, log, stmts, calls, issued, payload, parsed,
                   signal, raised>>

\* sync_emails up to the loop: the user lookup, outside try, and the listing
SyncStart(w) ==
    /\ reqs[w].pc = "start" /\ reqs[w].op = "sync_emails"
    /\ \E db \in DbOutcomes, messages \in Listings :
          LET user_id == UserByEmail(reqs[w].email) IN
          reqs' = [reqs EXCEPT ![w] =
              IF db # "ok"
              THEN [@ EXCEPT !.pc = "exit", !.exit = "unhandled",
                             !.resp = Unhandled("sync_emails")]
              ELSE IF user_id = 0
              THEN [@ EXCEPT !.pc = "exit", !.exit = "HTTPException",
                             !.resp = NotFound("sync_emails", "User not found")]
              ELSE [@ EXCEPT !.pc = "loop", !.i = 1,
                             !.messages = list_messages("ok", messages).messages]]
    /\ UNCHANGED <<users, emails, req, resp, log, stmts, calls, issued, payload, parsed,
                   signal, raised>>

\* one iteration of "for msg in messages": the check against the committed
\* rows, the fetch, the parse and db.add
SyncStep(w) ==
    /\ reqs[w].pc = "loop" /\ reqs[w].acc.raised = ""
    /\ reqs[w].i <= Len(reqs[w].messages)
    /\ \E fetch \in FetchOutcomes :
          /\ ExistingEmail(reqs[w].messages[reqs[w].i]) # 0 => fetch = "ok"
          /\ reqs' = [reqs EXCEPT ![w] =
                [@ EXCEPT !.i = @ + 1,
                          !.acc = SyncLoop(UserByEmail(reqs[w].email),
                                           SubSeq(reqs[w].messages, 1, reqs[w].i),
                                           [k \in 1..reqs[w].i |-> fetch],
                                           reqs[w].i, reqs[w].acc)]]
    /\ UNCHANGED <<users, emails, req, resp, log, stmts, calls, issued, payload, parsed,
                   signal, raised>>

\* the end of sync_emails: db.commit() and return, or the except clause with
\* db.rollback(); either way the session holds no pending row afterwards
SyncFinish(w) ==
    /\ reqs[w].pc = "loop"
    /\ reqs[w].acc.raised # "" \/ reqs[w].i > Len(reqs[w].messages)
    /\ LET out == SyncOutcome(reqs[w].acc) IN
       /\ emails' = out.emails
       /\ reqs' = [reqs EXCEPT ![w] =
             [@ EXCEPT !.pc = "exit", !.resp = out.resp,
                       !.exit = IF out.resp.status = 200 THEN "return"
                                ELSE "HTTPException",
                       !.acc = [@ EXCEPT !.pending = <<>>]]]
    /\ UNCHANGED <<users, req, resp, log, stmts, calls, issued, payload, parsed, signal, raised>>

\* delete_email up to the commit: the lookups, then is_deleted set on the
\* record in the session
DeleteStart(w) ==
    /\ reqs[w].pc = "start" /\ reqs[w].op = "delete_email"
    /\ \E db \in DbOutcomes, email_id \in EmailIds :
          LET user_id == UserByEmail(reqs[w].email)
              id == OwnedEmail(email_id, user_id)
          IN
          reqs' = [reqs EXCEPT ![w] =
              IF db # "ok"
              THEN [@ EXCEPT !.pc = "exit", !.exit = "unhandled",
                             !.resp = Unhandled("delete_email")]
              ELSE IF user_id = 0
              THEN [@ EXCEPT !.pc = "exit", !.exit = "HTTPException",
                             !.resp = NotFound("delete_email", "User not found")]
              ELSE IF id = 0
              THEN [@ EXCEPT !.pc = "exit", !.exit = "HTTPException",
                             !.resp = NotFound("delete_email", "Email not found")]
              ELSE [@ EXCEPT !.pc = "commit", !.target = id]]
    /\ UNCHANGED <<users, emails, req, resp, log, stmts, calls, issued, payload, parsed,
                   signal, raised>>

\* delete_email's db.commit(), outside any try: it persists the change, or
\* raises and leaves the change pending in the session
DeleteCommit(w) ==
    /\ reqs[w].pc = "commit"
    /\ \E db \in DbOutcomes :
          IF db = "ok"
          THEN /\ emails' = [emails EXCEPT ![reqs[w].target].is_deleted = TRUE]
               /\ reqs' = [reqs EXCEPT ![w] =
                     [@ EXCEPT !.pc = "exit", !.exit = "return", !.target = 0,
                               !.resp = [op |-> "delete_email", status |-> 200,
                                         id |-> reqs[w].target]]]
          ELSE /\ UNCHANGED emails
               /\ reqs' = [reqs EXCEPT ![w] =
                     [@ EXCEPT !.pc = "exit", !.exit = "unhandled",
                               !.resp = Unhandled("delete_email")]]
    /\ UNCHANGED <<users, req, resp, log, stmts, calls, issued, payload, parsed, signal, raised>>

\* toggle_star_email up to the commit: get_db opens the session, the lookups
\* load the row, and the flipped flag is set on the record in the session
ToggleStart(w) ==
    /\ reqs[w].pc = "idle"
    /\ \E email \in RequestAddrs, email_id \in EmailIds :
          LET user_id == UserByEmail(email)
              id == LiveEmail(email_id, user_id)
              opened == [NoRequest EXCEPT !.op = "toggle_star_email", !.email = email,
                                          !.session = "open"]
          IN
          reqs' = [reqs EXCEPT ![w] =
              IF user_id = 0
              THEN [opened EXCEPT !.pc = "exit", !.exit = "HTTPException",
                                  !.resp = NotFound("toggle_star_email", "User not found")]
              ELSE IF id = 0
              THEN [opened EXCEPT !.pc = "exit", !.exit = "HTTPException",
                                  !.resp = NotFound("toggle_star_email", "Email not found")]
              ELSE [opened EXCEPT !.pc = "flush", !.target = id,
                                  !.is_starred = ToggledStar(emails[id].is_starred)]]
    /\ UNCHANGED <<users, emails, req, resp, log, stmts, calls, issued, payload, parsed,
                   signal, raised>>

\* toggle_star_email's db.commit(), outside any try: the UPDATE writes the
\* flag the session holds, and the commit expires the session's records
ToggleCommit(w) ==
    /\ reqs[w].pc = "flush"
    /\ \E db \in DbOutcomes :
          IF db = "ok"
          THEN /\ emails' = [emails EXCEPT ![reqs[w].target].is_starred = reqs[w].is_starred]
               /\ reqs' = [reqs EXCEPT ![w] = [@ EXCEPT !.pc = "reload"]]
          ELSE /\ UNCHANGED emails
               /\ reqs' = [reqs EXCEPT ![w] =
                     [@ EXCEPT !.pc = "exit", !.exit = "unhandled",
                               !.resp = Unhandled("toggle_star_email")]]
    /\ UNCHANGED <<users, req, resp, log, stmts, calls, issued, payload, parsed, signal, raised>>

\* "if email_record.is_starred:": the expired record is loaded again from the
\* committed row
ToggleReload(w) ==
    /\ reqs[w].pc = "reload"
    /\ reqs' = [reqs EXCEPT ![w] =
          [@ EXCEPT !.pc = "mirror", !.is_starred = emails[reqs[w].target].is_starred]]
    /\ UNCHANGED <<users, emails, req, resp, log, stmts, calls, issued, payload, parsed,
                   signal, raised>>

\* the modify call for the flag that was loaded, and the return
ToggleMirror(w) ==
    /\ reqs[w].pc = "mirror"
    /\ \E outcome \in ModifyOutcomes :
          LET remote == modify_message(emails[reqs[w].target].message_id,
                            IF reqs[w].is_starred THEN "add STARRED" ELSE "remove STARRED",
                            outcome, "Failed to update star status in Gmail")
          IN  /\ calls' = calls \o remote.calls
              /\ log' = log \o remote.log
    /\ reqs' = [reqs EXCEPT ![w] =
          [@ EXCEPT !.pc = "exit", !.exit = "return",
                    !.resp = Ok("toggle_star_email", reqs[w].is_starred)]]
    /\ UNCHANGED <<users, emails, req, resp, stmts, issued, payload, parsed, signal, raised>>

\* get_db after the yield: the session is closed and what it still held
\* pending is discarded with it
CloseSession(w) ==
    /\ reqs[w].pc = "exit"
    /\ LET session == get_db_close(reqs[w].exit) IN
       reqs' = [reqs EXCEPT ![w] =
          [@ EXCEPT !.pc = "done", !.session = session,
                    !.target = IF session = "closed" THEN 0 ELSE @,
                    !.acc = IF session = "closed" THEN [@ EXCEPT !.pending = <<>>]
                            ELSE @]]
    /\ UNCHANGED <<users, emails, req, resp, log, stmts, calls, issued, payload, parsed,
                   signal, raised>>

\* one step of one worker
Requests ==
    \E w \in Workers :
        \/ OpenSession(w)
        \/ SyncStart(w)
        \/ SyncStep(w)
        \/ SyncFinish(w)
        \/ DeleteStart(w)
        \/ DeleteCommit(w)
        \/ CloseSession(w)

(***************************************************************************)
(* GET /emails (routes/email.py)                                           *)
(***************************************************************************)
PerPageMax == 100                      \* per_page: Query(50, ge=1, le=100)
MaxRows == 3                           \* most rows of a listed store
MaxPage == 3                           \* largest page requested
MaxPerPage == 2                        \* largest per_page requested

RECURSIVE Like(_, _)

\* SQL "text LIKE pattern" with no ESCAPE clause: "%" stands for any run of
\* characters, "_" for any one character, every other character for itself
Like(text, pattern) ==
    IF pattern = <<>> THEN text = <<>>
    ELSE IF Head(pattern) = "%"
    THEN \/ Like(text, Tail(pattern))
         \/ text # <<>> /\ Like(Tail(text), pattern)
    ELSE /\ text # <<>>
         /\ Head(pattern) = "_" \/ Head(pattern) = Head(text)
         /\ Like(Tail(text), Tail(pattern))

\* Column.contains(query): column LIKE '%' || query || '%', the query bound
\* as it is, without autoescape
Contains(text, query) == Like(text, <<"%">> \o query \o <<"%">>)

\* the filter of email_query: owner, not deleted and, for a non-empty query,
\* subject, sender or body text containing it
EmailQuery(user_id, query) ==
    {i \in 1..Len(emails) :
        /\ emails[i].user_id = user_id
        /\ ~emails[i].is_deleted
        /\ query # <<>> =>
              \/ Contains(emails[i].subject, query)
              \/ Contains(emails[i].sender, query)
              \/ Contains(emails[i].body_text, query)}

\* order_by(Email.received_at.desc()): every order of the rows the database
\* may produce, rows of equal received_at in any order
OrderByReceivedDesc(rows) ==
    {ord \in [1..Cardinality(rows) -> rows] :
        /\ \A a, b \in 1..Cardinality(rows) : a # b => ord[a] # ord[b]
        /\ \A a, b \in 1..Cardinality(rows) :
              a < b => emails[ord[a]].received_at >= emails[ord[b]].received_at}

\* mutant: the offset of the page after the one requested
Offset_NextPage(page, per_page) == page * per_page

\* offset = (page - 1) * per_page
Offset(page, per_page) == (page - 1) * per_page

\* .offset(offset).limit(per_page).all()
OffsetLimit(ord, offset, per_page) ==
    SubSeq(ord, offset + 1,
           IF offset + per_page < Len(ord) THEN offset + per_page ELSE Len(ord))

\* GET /emails; ord is the order the database returned the filtered rows in
get_emails(email, page, per_page, query, ord) ==
    LET user_id == UserByEmail(email) IN
    /\ UNCHANGED <<users, emails, issued, reqs, payload, parsed, signal, raised>>
    /\ req' = Request("get_emails", 0, email, NoService)
    /\ log' = <<>> /\ calls' = <<>> /\ stmts' = {}
    /\ IF page < 1 \/ per_page < 1 \/ per_page > PerPageMax
       THEN resp' = [op |-> "get_emails", status |-> 422, detail |-> "validation"]
       ELSE IF user_id = 0
       THEN resp' = NotFound("get_emails", "User not found")
       ELSE /\ ord \in OrderByReceivedDesc(EmailQuery(user_id, query))
            /\ resp' = [op |-> "get_emails", status |-> 200,
                        emails |-> OffsetLimit(ord, Offset(page, per_page), per_page),
                        total |-> Cardinality(EmailQuery(user_id, query)),
                        page |-> page, per_page |-> per_page]

Queries == {<<>>, <<"h">>, <<"n", "n">>, <<"_">>}

GetEmails ==
    \/ \E page \in {0, 1}, per_page \in {0, 1, PerPageMax + 1} :
          /\ page < 1 \/ per_page < 1 \/ per_page > PerPageMax
          /\ get_emails(UnknownAddr, page, per_page, <<>>, <<>>)
    \/ get_emails(UnknownAddr, 1, 1, <<>>, <<>>)
    \/ \E email \in Addrs, page \in 1..MaxPage, per_page \in 1..MaxPerPage,
          query \in Queries :
          \E ord \in OrderByReceivedDesc(EmailQuery(UserByEmail(email), query)) :
             get_emails(email, page, per_page, query, ord)

\* the rows syncs can have mirrored: distinct message ids, either owner, any
\* Date header of the model, deleted or not
ListedIds == <<"m1", "m2", "m3", "m4", "m5">>

ListedRows(i) ==
    {[Email(user_id, parse_message(
                [RemoteMessage(m) EXCEPT !.id = ListedIds[i],
                                         !.payload.headers[3].value = date], Now))
        EXCEPT !.is_deleted = deleted] :
        user_id \in 1..2, m \in MessageIds, date \in Range(Dates),
        deleted \in BOOLEAN}

RECURSIVE StoresOfSize(_)
StoresOfSize(n) ==
    IF n = 0 THEN {<<>>}
    ELSE {Append(st, r) : st \in StoresOfSize(n - 1), r \in ListedRows(n)}

ListedStores == UNION {StoresOfSize(n) : n \in 0..MaxRows}

(***************************************************************************)
(* parse_message on bounded multipart payloads                             *)
(***************************************************************************)
MaxParts == 2                          \* most parts of one multipart node

BodyData == {"", "QQ==", "Qg==", "QQ", "_w=="}
Leaves == {Part(m, d, <<>>) : m \in {"text/plain", "text/html"}, d \in BodyData}

PartLists(S) == UNION {[1..n -> S] : n \in 1..MaxParts}

\* a leaf, a multipart of leaves, or a multipart of leaves and such multiparts
Flat == {Part("multipart/mixed", "", ps) : ps \in PartLists(Leaves)}
Payloads ==
    Leaves \cup Flat
        \cup {Part("multipart/mixed", "", ps) : ps \in PartLists(Leaves \cup Flat)}

\* the message the provider returns around a payload
MessageOf(body) ==
    [id |-> "m1", labelIds |-> {"INBOX"},
     payload |-> [headers |-> << [name |-> "Subject", value |-> <<"h", "i">>] >>,
                  mimeType |-> body.mimeType, data |-> body.data, parts |-> body.parts]]

ParseMessage ==
    /\ parsed.op = "none"
    /\ parsed' = [op |-> "parse_message", result |-> parse_message(MessageOf(payload), Now)]
    /\ UNCHANGED <<users, emails, req, resp, log, stmts, calls, issued, reqs, payload, signal, raised>>

(***************************************************************************)
(* The provider-error helpers (exception_handling.py, exception.py)        *)
(***************************************************************************)
\* BaseAPIException.__init__ as the subclasses call it
APIException(kind, message, status_code, error_code, details) ==
    [kind |-> kind, message |-> message, status_code |-> status_code,
     error_code |-> error_code, details |-> details]

NoDetails == [k \in {} |-> 0]

InvalidTokenError(message) ==
    APIException("InvalidTokenError", message, 401, "INVALID_TOKEN", NoDetails)
AuthorizationError(message) ==
    APIException("AuthorizationError", message, 403, "AUTHORIZATION_ERROR", NoDetails)
GmailQuotaExceededError(message) ==
    APIException("GmailQuotaExceededError", message, 429, "GMAIL_QUOTA_EXCEEDED", NoDetails)
GmailAPIError(message, details) ==
    APIException("GmailAPIError", message, 500, "GMAIL_API_ERROR", details)
ExternalServiceError(message) ==
    APIException("ExternalServiceError", message, 503, "EXTERNAL_SERVICE_ERROR", NoDetails)
ExternalServiceTimeoutError(message) ==
    APIException("ExternalServiceTimeoutError", message, 504,
                 "EXTERNAL_SERVICE_TIMEOUT", NoDetails)

\* handle_google_api_error(exc): the exception it raises for exc.resp.status
handle_google_api_error(exc) ==
    IF exc.status = 401 THEN InvalidTokenError("Google API authentication failed")
    ELSE IF exc.status = 403 THEN AuthorizationError("Google API access forbidden")
    ELSE IF exc.status = 429 THEN GmailQuotaExceededError("Google API quota exceeded")
    ELSE IF exc.status = 404 THEN GmailAPIError("Google API resource not found", NoDetails)
    ELSE GmailAPIError("Google API error", [k \in {"status_code"} |-> exc.status])

\* handle_request_error(exc): the exception it raises for a requests failure
handle_request_error(exc) ==
    IF exc.kind = "Timeout" THEN ExternalServiceTimeoutError("timeout")
    ELSE IF exc.kind = "ConnectionError" THEN ExternalServiceError("Connection error")
    ELSE ExternalServiceError(exc.body)

\* the provider's failures: an HttpError with a non-2xx status and a body, or
\* a requests exception
HttpErrors == [kind : {"HttpError"}, status : 300..599, body : {"", "quota"}]
RequestErrors ==
    [kind : {"Timeout", "ConnectionError", "RequestException"}, status : {0},
     body : {"", "reset"}]

HandleGoogleApiError ==
    /\ raised.op = "none" /\ signal.kind = "HttpError"
    /\ raised' = [op |-> "handle_google_api_error", exc |-> handle_google_api_error(signal)]
    /\ UNCHANGED <<users, emails, req, resp, log, stmts, calls, issued, reqs, payload, parsed, signal>>

HandleRequestError ==
    /\ raised.op = "none" /\ signal.kind \in {"Timeout", "ConnectionError", "RequestException"}
    /\ raised' = [op |-> "handle_request_error", exc |-> handle_request_error(signal)]
    /\ UNCHANGED <<users, emails, req, resp, log, stmts, calls, issued, reqs, payload, parsed, signal>>

(***************************************************************************)
(* The Gateway's remote operations (extra/service.py)                      *)
(***************************************************************************)
GatewayOps ==
    {"list_messages", "get_message", "send_email", "create_draft", "update_draft",
     "delete_draft", "send_draft", "modify_message", "create_calendar_event",
     "list_calendar_events", "get_calendar_event", "update_calendar_event",
     "delete_calendar_event"}

\* what each operation returns from its "except HttpError" clause
OnHttpError(op) ==
    CASE op \in {"list_messages", "list_calendar_events"} -> "[]"
      [] op \in {"delete_draft", "delete_calendar_event"} -> "False"
      [] OTHER -> "None"

\* the line each operation prints in its "except HttpError" clause
HttpErrorLine(op) ==
    CASE op = "list_messages" -> "Error listing messages"
      [] op = "get_message" -> "Error getting message"
      [] op = "send_email" -> "Error sending email"
      [] op = "create_draft" -> "Error creating draft"
      [] op = "update_draft" -> "Error updating draft"
      [] op = "delete_draft" -> "Error deleting draft"
      [] op = "send_draft" -> "Error sending draft"
      [] op = "modify_message" -> "Error modifying message"
      [] op = "create_calendar_event" -> "Error creating calendar event"
      [] op = "list_calendar_events" -> "Error listing calendar events"
      [] op = "get_calendar_event" -> "Error getting calendar event"
      [] op = "update_calendar_event" -> "Error updating calendar event"
      [] op = "delete_calendar_event" -> "Error deleting calendar event"

\* the answer of the provider when the remote call succeeds
Success == [kind |-> "Success", status |-> 200, body |-> "result"]

\* one Gateway operation around its remote call ".execute()": the value it
\* returns, or the exception that leaves it.  Every operation is
\*   try: return <remote call>   except HttpError as e: print(...); return <empty>
\* so an HttpError of any status becomes the operation's empty value and any
\* other exception of the transport propagates to the caller.
GatewayCall(op, exc) ==
    IF exc.kind = "Success"
    THEN [raised |-> FALSE, exception |-> None,
          value |-> IF op \in {"delete_draft", "delete_calendar_event"} THEN "True"
                    ELSE exc.body,
          log |-> <<>>]
    ELSE IF exc.kind = "HttpError"
    THEN [raised |-> FALSE, exception |-> None, value |-> OnHttpError(op),
          log |-> <<HttpErrorLine(op)>>]
    ELSE [raised |-> TRUE, exception |-> exc.kind, value |-> None, log |-> <<>>]

\* a Gateway operation called with a provider that answers with signal
GatewayOperation ==
    /\ raised.op = "none" /\ signal.kind # None
    /\ \E op \in GatewayOps :
          raised' = [op |-> op, result |-> GatewayCall(op, signal)]
    /\ UNCHANGED <<users, emails, req, resp, log, stmts, calls, issued, reqs, payload, parsed, signal>>

(***************************************************************************)
(* The calendar routes (routes/calendar.py)                                *)
(***************************************************************************)
\* googleapiclient's HttpError for a provider status
HttpError(status) == [kind |-> "HttpError", status |-> status, body |-> ""]

EventIds == {"e1", "e2", "e3"}

\* what the provider can answer to one calendar call
CalendarAnswers ==
    {Success} \cup {HttpError(status) : status \in {400, 401, 403, 404, 429, 500, 503}}
        \cup {[kind |-> k, status |-> 0, body |-> ""] : k \in {"Timeout", "ConnectionError"}}

\* the outcome of a call as the request log keeps it
AnswerLabel(answer) ==
    CASE answer.kind = "Success" -> "ok"
      [] answer.kind = "HttpError" /\ answer.status = 401 -> "HttpError 401"
      [] answer.kind = "HttpError" /\ answer.status = 403 -> "HttpError 403"
      [] answer.kind = "HttpError" /\ answer.status = 404 -> "HttpError 404"
      [] answer.kind = "HttpError" /\ answer.status = 429 -> "HttpError 429"
      [] answer.kind = "HttpError" /\ answer.status = 400 -> "HttpError 400"
      [] answer.kind = "HttpError" /\ answer.status = 500 -> "HttpError 500"
      [] answer.kind = "HttpError" /\ answer.status = 503 -> "HttpError 503"
      [] OTHER -> answer.kind

\* "except Exception as e: raise HTTPException(500, f'...: {str(e)}')": the
\* clause also catches the HTTPException the try block itself raises, which is
\* no HttpError; detail holds str(e)
CalendarFailed(op, e) == [op |-> op, status |-> 500, detail |-> e]

\* the body of a calendar route after the user lookup: the Gateway call inside
\* try, the HTTPException raised inside try for an empty value (detail holds
\* its status and text), and the except clauses
CalendarTry(op, answer, detail, unexpected) ==
    LET got == GatewayCall(op, answer) IN
    [log |-> got.log \o (IF got.raised \/ got.value \in {"None", "False"}
                         THEN <<unexpected>> ELSE <<>>),
     resp |-> IF got.raised THEN CalendarFailed(op, got.exception)
              ELSE IF got.value \in {"None", "False"} THEN CalendarFailed(op, detail)
              ELSE [op |-> op, status |-> 200, detail |-> got.value]]

\* a calendar route: the user lookup, then the try block around one call
CalendarRoute(op, remote, event_id, email, answer, detail, unexpected) ==
    /\ UNCHANGED <<users, emails, issued, reqs, payload, parsed, signal, raised>>
    /\ req' = Request(op, 0, email,
                    IF UserByEmail(email) = 0 THEN NoService
                    ELSE ServiceOf(UserByEmail(email)))
    /\ stmts' = {}
    /\ IF UserByEmail(email) = 0
       THEN /\ resp' = NotFound(op, "User not found")
            /\ log' = <<>> /\ calls' = <<>>
       ELSE LET tried == CalendarTry(op, answer, detail, unexpected) IN
            /\ calls' = <<Call(remote, event_id, "", AnswerLabel(answer), 0)>>
            /\ log' = tried.log
            /\ resp' = tried.resp

\* POST /calendar/events
create_calendar_event(email, answer) ==
    CalendarRoute("create_calendar_event", "events.insert", "", email, answer,
                  "500: Failed to create calendar event: No event returned from Google API.",
                  "Unexpected error during calendar event creation")

\* GET /calendar/events: an empty list is returned as it is
list_calendar_events(email, answer) ==
    CalendarRoute("list_calendar_events", "events.list", "", email, answer, "",
                  "Unexpected error during calendar event listing")

\* GET /calendar/events/{event_id}
get_calendar_event(event_id, email, answer) ==
    CalendarRoute("get_calendar_event", "events.get", event_id, email, answer,
                  "404: Calendar event not found",
                  "Unexpected error during calendar event retrieval")

\* PUT /calendar/events/{event_id}
update_calendar_event(event_id, email, answer) ==
    CalendarRoute("update_calendar_event", "events.update", event_id, email, answer,
                  "500: Failed to update calendar event: No event returned from Google API.",
                  "Unexpected error during calendar event update")

\* DELETE /calendar/events/{event_id}
delete_calendar_event(event_id, email, answer) ==
    CalendarRoute("delete_calendar_event", "events.delete", event_id, email, answer,
                  "500: Failed to delete calendar event: Google API did not confirm deletion.",
                  "Unexpected error during calendar event deletion")

CreateCalendarEvent ==
    \E email \in RequestAddrs, answer \in CalendarAnswers :
        create_calendar_event(email, answer)

ListCalendarEvents ==
    \E email \in RequestAddrs, answer \in CalendarAnswers :
        list_calendar_events(email, answer)

GetCalendarEvent ==
    \E event_id \in EventIds, email \in RequestAddrs, answer \in CalendarAnswers :
        get_calendar_event(event_id, email, answer)

UpdateCalendarEvent ==
    \E event_id \in EventIds, email \in RequestAddrs, answer \in CalendarAnswers :
        update_calendar_event(event_id, email, answer)

DeleteCalendarEvent ==
    \E event_id \in EventIds, email \in RequestAddrs, answer \in CalendarAnswers :
        delete_calendar_event(event_id, email, answer)

(***************************************************************************)
(* Specifications                                                          *)
(***************************************************************************)
InitAuth ==
    /\ users = <<>>
    /\ emails = <<>>
    /\ req = NoReq
    /\ resp = NoResp
    /\ log = <<>>
    /\ stmts = {}
    /\ calls = <<>>
    /\ issued = NoIssued
    /\ payload = NoPayload
    /\ parsed = NoParsed
    /\ signal = NoSignal
    /\ reqs = NoRequests
    /\ raised = NoRaised

NextAuth == Callback

SpecAuth == InitAuth /\ [][NextAuth]_vars

\* two users have logged in; nothing is mirrored yet
RegisteredUsers ==
    << User("ann@x.org", "Ann", "g1", "at1", "rt1"),
       User("bob@x.org", "Bob", "g2", "at2", "rt2") >>

InitSync ==
    /\ users = RegisteredUsers
    /\ emails = <<>>
    /\ req = NoReq
    /\ resp = NoResp
    /\ log = <<>>
    /\ stmts = {}
    /\ calls = <<>>
    /\ issued = NoIssued
    /\ payload = NoPayload
    /\ parsed = NoParsed
    /\ signal = NoSignal
    /\ reqs = NoRequests
    /\ raised = NoRaised

NextSync == SyncEmails \/ DeleteEmail

SpecSync == InitSync /\ [][NextSync]_vars

InitParse ==
    /\ users = <<>>
    /\ emails = <<>>
    /\ req = NoReq
    /\ resp = NoResp
    /\ log = <<>>
    /\ stmts = {}
    /\ calls = <<>>
    /\ issued = NoIssued
    /\ payload \in Payloads
    /\ parsed = NoParsed
    /\ signal = NoSignal
    /\ reqs = NoRequests
    /\ raised = NoRaised

SpecParse == InitParse /\ [][ParseMessage]_vars

InitNorm ==
    /\ users = <<>>
    /\ emails = <<>>
    /\ req = NoReq
    /\ resp = NoResp
    /\ log = <<>>
    /\ stmts = {}
    /\ calls = <<>>
    /\ issued = NoIssued
    /\ payload = NoPayload
    /\ parsed = NoParsed
    /\ signal \in HttpErrors \cup RequestErrors
    /\ reqs = NoRequests
    /\ raised = NoRaised

NextNorm == HandleGoogleApiError \/ HandleRequestError

SpecNorm == InitNorm /\ [][NextNorm]_vars

InitGateway ==
    /\ users = <<>>
    /\ emails = <<>>
    /\ req = NoReq
    /\ resp = NoResp
    /\ log = <<>>
    /\ stmts = {}
    /\ calls = <<>>
    /\ issued = NoIssued
    /\ payload = NoPayload
    /\ parsed = NoParsed
    /\ signal \in HttpErrors \cup RequestErrors \cup {Success}
    /\ reqs = NoRequests
    /\ raised = NoRaised

SpecGateway == InitGateway /\ [][GatewayOperation]_vars

InitList ==
    /\ users = RegisteredUsers
    /\ emails \in ListedStores
    /\ req = NoReq
    /\ resp = NoResp
    /\ log = <<>>
    /\ stmts = {}
    /\ calls = <<>>
    /\ issued = NoIssued
    /\ payload = NoPayload
    /\ parsed = NoParsed
    /\ signal = NoSignal
    /\ reqs = NoRequests
    /\ raised = NoRaised

NextList == resp.op = "none" /\ GetEmails

SpecList == InitList /\ [][NextList]_vars

NextCalendar ==
    \/ CreateCalendarEvent
    \/ ListCalendarEvents
    \/ GetCalendarEvent
    \/ UpdateCalendarEvent
    \/ DeleteCalendarEvent

SpecCalendar == InitSync /\ [][NextCalendar]_vars

\* two workers serving requests side by side, from an empty mirror
SpecRequests == InitSync /\ [][Requests]_vars

\* one message of the first user is mirrored, starred or not
InitToggles ==
    /\ users = RegisteredUsers
    /\ emails \in {<<Email(1, parse_message(RemoteMessage(id), Now))>> : id \in MessageIds}
    /\ req = NoReq
    /\ resp = NoResp
    /\ log = <<>>
    /\ stmts = {}
    /\ calls = <<>>
    /\ issued = NoIssued
    /\ payload = NoPayload
    /\ parsed = NoParsed
    /\ signal = NoSignal
    /\ reqs = NoRequests
    /\ raised = NoRaised

\* two server processes, each serving one toggle_star request
NextToggles ==
    \E w \in Workers :
        \/ ToggleStart(w)
        \/ ToggleCommit(w)
        \/ ToggleReload(w)
        \/ ToggleMirror(w)
        \/ CloseSession(w)

SpecToggles == InitToggles /\ [][NextToggles]_vars

\* the whole program: every handler with every input, from an empty database
Init == InitAuth

Next ==
    \/ NextToggles
    \/ Callback
    \/ SyncEmails
    \/ GetEmails
    \/ GetEmail
    \/ ToggleStarEmail
    \/ StarEmail
    \/ UnstarEmail
    \/ DeleteEmail
    \/ NextCalendar
    \/ Requests

Spec == Init /\ [][Next]_vars

\* a user who has a record logs in again: the callback resolves to the stored
\* identity and to a token pair the provider issues
RotateTokens ==
    \E exchange \in Credentials, uid \in 1..Len(users) :
        callback(TRUE, exchange,
                 [ok |-> TRUE, id |-> users[uid].google_id, email |-> users[uid].email,
                  name |-> users[uid].name, error |-> ""])

\* logins that rotate the stored tokens, between requests that call the provider
NextRotate ==
    \/ RotateTokens
    \/ SyncEmailsOk
    \/ ToggleStarEmail
    \/ ListCalendarEvents

SpecRotate == InitSync /\ [][NextRotate]_vars

NextMail ==
    \/ SyncEmailsOk
    \/ GetEmail
    \/ ToggleStarEmail
    \/ StarEmail
    \/ UnstarEmail
    \/ DeleteEmail

SpecMail == InitSync /\ [][NextMail]_vars

(***************************************************************************)
(* Claims about the credential store, checked under SpecAuth               *)
(***************************************************************************)
OneRecordPerEmail ==
    \A i, j \in 1..Len(users) : users[i].email = users[j].email => i = j

HasRecord(email) == \E i \in 1..Len(users) : users[i].email = email
RecordOf(email) == CHOOSE i \in 1..Len(users) : users[i].email = email

\* the backfill of callback cannot collide on users.google_id
NoSubjectCollision(uid, user_info) ==
    \/ users[uid].google_id # ""
    \/ \A j \in 1..Len(users) : j # uid => users[j].google_id # user_info.id

\* C2: after every request the credential store holds at most one record per
\* email, and a callback for an email that already has a record updates that
\* record in place: when it succeeds the store keeps its size and it commits
\* UPDATEs only, and it is refused by the store only when the backfilled
\* provider subject id collides with another record.
C2_OneRecordPerEmail ==
    [][/\ OneRecordPerEmail'
       /\ (resp'.op = "callback" /\ resp'.status = 307 /\ HasRecord(resp'.email)) =>
            /\ Len(users') = Len(users)
            /\ users'[RecordOf(resp'.email)].email = resp'.email
            /\ \A s \in stmts' : s.op = "UPDATE"
       /\ (resp'.op = "callback" /\ resp'.status = 400 /\ resp'.detail = "IntegrityError") =>
            \A exchange \in Credentials, user_info \in UserInfos :
                (HasRecord(user_info.email) /\ callback(TRUE, exchange, user_info)) =>
                    ~NoSubjectCollision(RecordOf(user_info.email), user_info)]_vars

\* a second successful callback for the same email has updated the one record
C2_Witness ==
    /\ resp.op = "callback" /\ resp.status = 307
    /\ \E s \in stmts : s.op = "UPDATE" /\ "access_token" \in s.cols
    /\ Cardinality({i \in 1..Len(users) : users[i].email = resp.email}) = 1
    /\ Len(users) = 2

\* C3: after a successful callback for an email that already had a record, the
\* stored access token and refresh token are the pair the code exchange issued.
C3_TokensOverwritten ==
    (resp.op = "callback" /\ resp.status = 307 /\ \A s \in stmts : s.op # "INSERT") =>
        LET uid == RecordOf(resp.email) IN
        /\ HasRecord(resp.email)
        /\ users[uid].access_token = issued.token
        /\ users[uid].refresh_token = issued.refresh_token

\* an existing record whose stored pair was replaced by a different issued pair
C3_Witness ==
    /\ resp.op = "callback" /\ resp.status = 307
    /\ \E s \in stmts : s.op = "UPDATE" /\ {"access_token", "refresh_token"} \subseteq s.cols
    /\ users[RecordOf(resp.email)].refresh_token = issued.refresh_token

\* C4: a successful callback for an existing record keeps a non-empty display
\* name and a non-empty provider subject id, and sets each of them from the
\* fetched identity exactly when the stored value is empty.
C4_IdentityBackfillOnly ==
    [][\A exchange \in Credentials, user_info \in UserInfos :
        LET uid == RecordOf(user_info.email) IN
        (resp'.op = "callback" /\ resp'.status = 307 /\ resp'.email = user_info.email
            /\ issued'.token = exchange.token /\ HasRecord(user_info.email)
            /\ callback(TRUE, exchange, user_info)) =>
            /\ users'[uid].name =
                  IF users[uid].name # "" THEN users[uid].name ELSE user_info.name
            /\ users'[uid].google_id =
                  IF users[uid].google_id # "" THEN users[uid].google_id
                  ELSE user_info.id]_vars

\* an update that backfilled the empty name and left the non-empty subject id
C4_Witness ==
    /\ resp.op = "callback" /\ resp.status = 307
    /\ \E s \in stmts : s.op = "UPDATE" /\ "name" \in s.cols /\ "google_id" \notin s.cols
    /\ users[RecordOf(resp.email)].google_id # ""
    /\ users[RecordOf(resp.email)].name # ""

CallsOf(op) == {i \in 1..Len(calls) : calls[i].op = op}

\* C15: a callback whose code the provider refuses (invalid, expired or already
\* redeemed) attempts the exchange exactly once and makes no other provider
\* call, answers with an error that carries the provider's error, and leaves
\* the credential store as it was.
C15_FailedExchange ==
    [][(/\ resp'.op = "callback" /\ CallsOf("fetch_token")' # {}
        /\ \E i \in CallsOf("fetch_token")' : calls'[i].result # "ok") =>
            /\ Cardinality(CallsOf("fetch_token")') = 1
            /\ Len(calls') = 1
            /\ resp'.status = 400
            /\ resp'.detail = calls'[1].result
            /\ users' = users
            /\ stmts' = {}]_vars

\* a redeemed code presented again after a login: refused, the record stays
C15_Witness ==
    /\ resp.op = "callback" /\ resp.status = 400
    /\ resp.detail = "invalid_grant: redeemed"
    /\ Len(calls) = 1 /\ calls[1].op = "fetch_token"
    /\ Len(users) = 2

\* C16: when the identity lookup fails, get_user_info prints the failure and
\* returns None instead of raising, and the callback answers with its own
\* error (400), committing nothing to the credential store.
C16_IdentityLookupFails ==
    [][(/\ resp'.op = "callback"
        /\ \E i \in CallsOf("userinfo")' : calls'[i].result # "ok") =>
            /\ "Error getting user info" \in Range(log')
            /\ resp'.status = 400
            /\ resp'.detail = "Failed to get user info"
            /\ users' = users
            /\ stmts' = {}]_vars

\* the identity endpoint rejected the token of a user who has a record
C16_Witness ==
    /\ resp.op = "callback" /\ resp.status = 400
    /\ resp.detail = "Failed to get user info"
    /\ Len(calls) = 2 /\ calls[1].result = "ok" /\ calls[2].result = "401 Unauthorized"
    /\ issued.token # None
    /\ Len(users) = 2

(***************************************************************************)
(* Claims about the mirror, checked under SpecSync and SpecMail            *)
(***************************************************************************)
SyncRan == resp.op = "sync_emails" /\ calls # <<>>

GetCalls(results) ==
    {i \in 1..Len(calls) : calls[i].op = "get" /\ calls[i].result \in results}

\* C1: after any sequence of sync requests the mirror holds no two rows with
\* the same remote message id.
C1_NoDuplicateMessageIds ==
    \A i, j \in 1..Len(emails) : emails[i].message_id = emails[j].message_id => i = j

\* a sync whose listing named mirrored ids only: it fetched and added nothing
C1_Witness ==
    /\ SyncRan /\ resp.status = 200 /\ resp.synced_count = 0
    /\ calls[1].result = "ok" /\ calls[1].returned = 2 /\ Len(calls) = 1
    /\ Len(emails) = 2

\* C5: when parsing a new message raises during a sync, the sync commits none
\* of its new rows, leaves every row of the store as it was and returns an
\* error (500).
C5_ParseFailureRollsBack ==
    [][(SyncRan' /\ GetCalls({"malformed"})' # {}) =>
            /\ emails' = emails
            /\ resp'.status = 500
            /\ stmts' = {}]_vars

\* the second of two new messages failed to parse after the first was added
C5_Witness ==
    /\ SyncRan /\ Len(calls) = 3
    /\ calls[2].op = "get" /\ calls[2].result = "ok"
    /\ calls[3].op = "get" /\ calls[3].result = "malformed"
    /\ calls[2].id # calls[3].id
    /\ resp.status = 500

C7_StarSurvivesRemoteFailure ==
    [][(/\ resp'.op = "toggle_star_email" /\ calls' # <<>>
        /\ calls'[1].result # "ok") =>
            /\ resp'.status = 200
            /\ \E id \in 1..Len(emails) :
                  /\ emails[id].message_id = calls'[1].id
                  /\ emails' = [emails EXCEPT ![id].is_starred = ~emails[id].is_starred]
                  /\ resp'.is_starred = emails'[id].is_starred
                  /\ stmts' = {[op |-> "UPDATE", table |-> "emails",
                                cols |-> {"is_starred"}]}]_vars

\* a toggle whose remote call raised: the row is starred and the request succeeded
C7_Witness ==
    /\ resp.op = "toggle_star_email" /\ resp.status = 200 /\ resp.is_starred
    /\ calls # <<>> /\ calls[1].op = "modify" /\ calls[1].result = "transport_error"
    /\ \E id \in 1..Len(emails) :
          emails[id].message_id = calls[1].id /\ emails[id].is_starred

\* the label change that mirrors a committed local change to the provider
MirrorOf(op, row) ==
    CASE op = "get_email" -> "remove UNREAD"
      [] op = "delete_email" -> "add TRASH"
      [] op = "toggle_star_email" ->
            IF row.is_starred THEN "add STARRED" ELSE "remove STARRED"

\* C17: each of mark_read (GET /emails/{id}), toggle_star and soft_delete
\* (DELETE /emails/{id}), having committed its change to the local row, has
\* attempted the provider call that mirrors that change on the same message,
\* and succeeds whatever the outcome of that call.
C17_MutationsMirrored ==
    (/\ resp.op \in {"get_email", "toggle_star_email", "delete_email"}
     /\ resp.status = 200 /\ stmts # {}) =>
        \E id \in 1..Len(emails), i \in 1..Len(calls) :
            /\ calls[i].op = "modify"
            /\ calls[i].id = emails[id].message_id
            /\ calls[i].arg = MirrorOf(resp.op, emails[id])

\* C21: no request removes a mirror row: over every sync, get, star and delete
\* request the table keeps each of its rows in place with its message id, so
\* the set of mirrored ids only grows, and a successful DELETE /emails/{id}
\* changes nothing but the is_deleted flag of that row, which it sets.
C21_RowsAreKept ==
    [][/\ Len(emails') >= Len(emails)
       /\ \A i \in 1..Len(emails) : emails'[i].message_id = emails[i].message_id
       /\ (req'.op = "delete_email" /\ resp'.status = 200) =>
             emails' = [emails EXCEPT ![req'.email_id].is_deleted = TRUE]]_vars

\* a delete succeeded on one of two mirrored rows: both rows are in the table
C21_Witness ==
    /\ req.op = "delete_email" /\ resp.status = 200
    /\ Len(emails) = 2
    /\ emails[req.email_id].is_deleted
    /\ \E s \in stmts : s.op = "UPDATE" /\ s.cols = {"is_deleted"}

C25_DeletedStaysDeleted ==
    [][/\ Len(emails') >= Len(emails)
       /\ \A i \in 1..Len(emails) :
             emails[i].is_deleted =>
                /\ emails'[i] = emails[i]
                /\ \A j \in (Len(emails) + 1)..Len(emails') :
                      emails'[j].message_id # emails[i].message_id
                /\ req'.op = "sync_emails" =>
                      \A k \in 1..Len(calls') :
                         calls'[k].op = "get" => calls'[k].id # emails[i].message_id]_vars

\* the only stored row is soft-deleted, and a sync whose listing returned one
\* entry fetched nothing and stored nothing: the entry was the deleted message
C25_Witness ==
    /\ SyncRan /\ resp.status = 200 /\ resp.synced_count = 0
    /\ Len(emails) = 1 /\ emails[1].is_deleted
    /\ Len(calls) = 1 /\ calls[1].returned = 1

StarRoutes == {"toggle_star_email", "star_email", "unstar_email"}

\* C26: on a soft-deleted row, GET /emails/{id} and the three star routes
\* answer 404, leave the table as it was, emit no statement and make no
\* provider call; DELETE /emails/{id} by the row's owner answers 200 and the
\* row stays as it was, deleted.
C26_DeletedIsNotFound ==
    [][(/\ req'.email_id \in 1..Len(emails)
        /\ emails[req'.email_id].is_deleted) =>
           /\ req'.op \in StarRoutes \cup {"get_email"} =>
                 /\ resp'.status = 404
                 /\ emails' = emails /\ stmts' = {} /\ calls' = <<>>
           /\ (/\ req'.op = "delete_email" /\ HasRecord(req'.email)
               /\ emails[req'.email_id].user_id = RecordOf(req'.email)) =>
                 /\ resp'.status = 200
                 /\ emails' = emails /\ emails'[req'.email_id].is_deleted]_vars

\* the owner of a soft-deleted row asked to toggle its star and got 404
C26_Witness ==
    /\ req.op = "toggle_star_email"
    /\ resp.status = 404 /\ resp.detail = "Email not found"
    /\ req.email_id \in 1..Len(emails)
    /\ emails[req.email_id].is_deleted
    /\ HasRecord(req.email) /\ emails[req.email_id].user_id = RecordOf(req.email)

\* C27: on a non-deleted row, a successful toggle_star flips is_starred and
\* nothing else, so a second toggle right after it on the same row answers
\* with, and stores, the value the row had before the first; star/add leaves
\* the flag true and star/remove leaves it false however often they run, and
\* a star/add on a starred row or a star/remove on an unstarred row emits no
\* statement, makes no provider call and leaves the table as it was.
C27_StarAlgebra ==
    [][(/\ req'.op \in StarRoutes /\ resp'.status = 200) =>
          LET id == req'.email_id IN
          /\ req'.op = "toggle_star_email" =>
                /\ emails' = [emails EXCEPT ![id].is_starred = ~emails[id].is_starred]
                /\ resp'.is_starred = ~emails[id].is_starred
                /\ (/\ req.op = "toggle_star_email" /\ resp.status = 200
                    /\ req.email_id = id) =>
                       /\ resp'.is_starred = ~resp.is_starred
                       /\ emails'[id].is_starred = ~resp.is_starred
          /\ req'.op = "star_email" =>
                /\ emails' = [emails EXCEPT ![id].is_starred = TRUE]
                /\ resp'.is_starred
                /\ emails[id].is_starred =>
                      emails' = emails /\ stmts' = {} /\ calls' = <<>>
          /\ req'.op = "unstar_email" =>
                /\ emails' = [emails EXCEPT ![id].is_starred = FALSE]
                /\ ~resp'.is_starred
                /\ ~emails[id].is_starred =>
                      emails' = emails /\ stmts' = {} /\ calls' = <<>>]_vars

\* a star/add succeeded on a row that was starred already: nothing was
\* written and the provider was not called
C27_Witness ==
    /\ req.op = "star_email" /\ resp.status = 200
    /\ emails[req.email_id].is_starred /\ ~emails[req.email_id].is_deleted
    /\ stmts = {} /\ calls = <<>>

\* C28: a get, star or delete request for the id of a row that another user
\* owns answers 404 and leaves the table as it was, with no statement and no
\* provider call; the row a successful GET /emails/{id} returns is owned by
\* the requester.
C28_OtherUsersRows ==
    [][/\ (/\ req'.op \in StarRoutes \cup {"get_email", "delete_email"}
           /\ req'.email_id \in 1..Len(emails)
           /\ HasRecord(req'.email)
           /\ emails[req'.email_id].user_id # RecordOf(req'.email)) =>
              /\ resp'.status = 404
              /\ emails' = emails /\ stmts' = {} /\ calls' = <<>>
       /\ (req'.op = "get_email" /\ resp'.status = 200) =>
              /\ HasRecord(req'.email)
              /\ resp'.email.user_id = RecordOf(req'.email)]_vars

\* a registered user asked for a live row of another user and got 404
C28_Witness ==
    /\ req.op \in StarRoutes \cup {"get_email", "delete_email"}
    /\ resp.status = 404 /\ resp.detail = "Email not found"
    /\ req.email_id \in 1..Len(emails)
    /\ ~emails[req.email_id].is_deleted
    /\ HasRecord(req.email) /\ emails[req.email_id].user_id # RecordOf(req.email)

\* C30: after every request no two credential records share a non-empty
\* provider subject id; a callback that fails leaves every record, tokens
\* included, as it was and commits no statement, and a callback that adds a
\* record adds none whose non-empty subject id an existing record holds.
C30_SubjectIdsUnique ==
    [][/\ \A i, j \in 1..Len(users') :
             (i # j /\ users'[i].google_id # "") =>
                 users'[i].google_id # users'[j].google_id
       /\ (resp'.op = "callback" /\ resp'.status = 400) =>
             users' = users /\ stmts' = {}
       /\ (resp'.op = "callback" /\ resp'.status = 307 /\ Len(users') > Len(users)) =>
             \A i \in 1..Len(users) :
                 users'[Len(users')].google_id # "" =>
                     users[i].google_id # users'[Len(users')].google_id]_vars

\* the store holds one record with a subject id, and a callback was refused by
\* the store: it resolved to another email and to that same subject id
C30_Witness ==
    /\ resp.op = "callback" /\ resp.status = 400 /\ resp.detail = "IntegrityError"
    /\ Len(users) = 1 /\ users[1].google_id # ""
    /\ issued # NoIssued
    /\ stmts = {}

\* C24: a request that calls the provider does so with a capability it built
\* itself from the token pair its user's record holds when the request is
\* served; after a callback has committed a new pair, the requests served
\* later hold the new pair and never the one it replaced.
C24_FreshCapability ==
    [][(calls' # <<>> /\ req'.op # "callback") =>
          /\ HasRecord(req'.email)
          /\ req'.service =
                [token |-> users[RecordOf(req'.email)].access_token,
                 refresh_token |-> users[RecordOf(req'.email)].refresh_token]]_vars

\* a user's tokens were rotated by a later login, and a sync served after it
\* called the provider with the rotated pair
C24_Witness ==
    /\ req.op = "sync_emails" /\ calls # <<>>
    /\ HasRecord(req.email)
    /\ users[RecordOf(req.email)].access_token #
          RegisteredUsers[RecordOf(req.email)].access_token
    /\ req.service.token = users[RecordOf(req.email)].access_token
    /\ req.service.refresh_token = users[RecordOf(req.email)].refresh_token

(***************************************************************************)
(* Claims about requests in flight, checked under SpecRequests             *)
(***************************************************************************)
UniqueIds(table) ==
    \A i, j \in 1..Len(table) : table[i].message_id = table[j].message_id => i = j

\* C13: however the steps of two sync requests interleave, the store never
\* holds two rows for one remote message id, and a sync whose commit repeats
\* an id the store already holds (or repeats one of its own) commits nothing
\* and fails with the constraint violation, while a commit that collides with
\* nothing adds all of its rows.
C13_RacingSyncs ==
    [][/\ UniqueIds(emails')
       /\ \A w \in Workers :
            (/\ reqs[w].op = "sync_emails"
             /\ reqs[w].pc = "loop" /\ reqs'[w].pc = "exit"
             /\ reqs[w].acc.raised = "") =>
                IF UniqueIds(emails \o reqs[w].acc.pending)
                THEN /\ emails' = emails \o reqs[w].acc.pending
                     /\ reqs'[w].resp.status = 200
                ELSE /\ emails' = emails
                     /\ reqs'[w].resp.status = 500
                     /\ reqs'[w].resp.detail = "IntegrityError"]_vars

\* two syncs of one user raced for the one new id m1: one committed it, the
\* other was refused, and the store holds one row
C13_Witness ==
    /\ \A w \in Workers :
          /\ reqs[w].op = "sync_emails" /\ reqs[w].pc = "done"
          /\ reqs[w].email = "ann@x.org" /\ reqs[w].messages = <<"m1">>
    /\ \E w \in Workers : reqs[w].resp.status = 200 /\ reqs[w].resp.synced_count = 1
    /\ \E w \in Workers : reqs[w].resp.status = 500 /\ reqs[w].resp.detail = "IntegrityError"
    /\ Len(emails) = 1

\* C14: a request that has ended, by its return, by an HTTPException or by an
\* exception nothing caught, has its session closed with nothing pending in
\* it; a session is open only while its request runs; and a request that
\* fails changes no row of the store, neither as it fails nor as its session
\* is closed.
C14_SessionReleased ==
    [][\A w \in Workers :
        /\ reqs'[w].pc = "done" =>
              /\ reqs'[w].session = "closed"
              /\ reqs'[w].acc.pending = <<>> /\ reqs'[w].target = 0
        /\ reqs'[w].session = "open" => reqs'[w].pc \in {"start", "loop", "commit", "exit"}
        /\ (/\ reqs'[w].pc # reqs[w].pc /\ reqs'[w].pc \in {"exit", "done"}
            /\ reqs'[w].resp.status >= 400) => emails' = emails]_vars

\* a delete that an uncaught database error ended, beside a sync that an
\* IntegrityError ended: both sessions are closed and no row is deleted
C14_Witness ==
    /\ \A w \in Workers : reqs[w].pc = "done" /\ reqs[w].session = "closed"
    /\ \E w \in Workers : reqs[w].op = "delete_email" /\ reqs[w].exit = "unhandled"
    /\ \E w \in Workers :
          /\ reqs[w].op = "sync_emails" /\ reqs[w].exit = "HTTPException"
          /\ reqs[w].resp.detail = "IntegrityError"
    /\ emails = <<>>

\* the is_starred flag the mirrored row had when it was synced
OriginalStar(row) == parse_message(RemoteMessage(row.message_id), Now).is_starred

\* the STARRED label at the provider: what the last modify call that succeeded
\* wrote, or the label the message was synced with
RemoteStar(row) ==
    LET written == {i \in 1..Len(calls) : calls[i].result = "ok"} IN
    IF written = {} THEN OriginalStar(row)
    ELSE calls[CHOOSE i \in written : \A j \in written : j <= i].arg = "add STARRED"

\* C29: when two toggle_star requests on the same live row have both
\* completed with success, however their steps interleaved, the stored
\* is_starred is what it was before the two requests and the STARRED label
\* last written to the provider agrees with it.
C29_ConcurrentToggles ==
    (\A w \in Workers :
        /\ reqs[w].op = "toggle_star_email"
        /\ reqs[w].pc \in {"exit", "done"}
        /\ reqs[w].resp.status = 200) =>
            /\ emails[1].is_starred = OriginalStar(emails[1])
            /\ RemoteStar(emails[1]) = emails[1].is_starred

(***************************************************************************)
(* Claims about parse_message, checked under SpecParse                     *)
(***************************************************************************)
RECURSIVE LeavesOf(_)
RECURSIVE LeavesOfAll(_, _)

\* the leaves of a payload in depth-first order
LeavesOf(part) ==
    IF part.parts = <<>> THEN <<part>> ELSE LeavesOfAll(part.parts, 1)

LeavesOfAll(parts, i) ==
    IF i > Len(parts) THEN <<>>
    ELSE LeavesOf(parts[i]) \o LeavesOfAll(parts, i + 1)

\* the text of the first leaf of a MIME type that carries data
FirstBody(leaves, mimeType) ==
    LET hits == {i \in 1..Len(leaves) :
                    leaves[i].mimeType = mimeType /\ leaves[i].data # ""}
    IN  IF hits = {} THEN <<>>
        ELSE DecodeBody(leaves[CHOOSE i \in hits : \A j \in hits : i <= j].data).text

\* C8: parse_message keeps, for text/plain and for text/html, the body of the
\* first leaf of that type met in depth-first order; a later leaf of the same
\* type never overwrites it.
C8_FirstLeafWins ==
    (parsed.op = "parse_message" /\ ~parsed.result.raised) =>
        /\ parsed.result.body_text = FirstBody(LeavesOf(payload), "text/plain")
        /\ parsed.result.body_html = FirstBody(LeavesOf(payload), "text/html")

\* C23: parse_message returns for every payload: a text/plain or text/html
\* part whose data is missing or cannot be decoded never makes it raise.
C23_MalformedBodyTolerated ==
    parsed.op = "parse_message" => ~parsed.result.raised

(***************************************************************************)
(* Claims about get_emails, checked under SpecList                         *)
(***************************************************************************)
Min(a, b) == IF a < b THEN a ELSE b
Max(a, b) == IF a > b THEN a ELSE b

\* the rows a listing for email and query is about
FilteredRows(email, query) ==
    {i \in 1..Len(emails) :
        /\ emails[i].user_id = RecordOf(email)
        /\ ~emails[i].is_deleted
        /\ \/ query = <<>>
           \/ Contains(emails[i].subject, query)
           \/ Contains(emails[i].sender, query)
           \/ Contains(emails[i].body_text, query)}

\* out holds the rows at positions first+1 .. first+Len(out) of rows ordered by
\* received time descending: no row twice, in descending order, and the k-th of
\* them has fewer than first+k rows received after it and at least first+k rows
\* received no earlier
IsSliceAt(out, rows, first) ==
    /\ \A a \in 1..Len(out) : out[a] \in rows
    /\ \A a, b \in 1..Len(out) : a # b => out[a] # out[b]
    /\ \A a, b \in 1..Len(out) :
          a < b => emails[out[a]].received_at >= emails[out[b]].received_at
    /\ \A k \in 1..Len(out) :
          /\ Cardinality({j \in rows :
                emails[j].received_at > emails[out[k]].received_at}) < first + k
          /\ Cardinality({j \in rows :
                emails[j].received_at >= emails[out[k]].received_at}) >= first + k

\* C9: for page >= 1 and per_page in 1..100, get_emails returns exactly the
\* rows at positions (page-1)*per_page .. min(page*per_page, total)-1 of the
\* user's filtered non-deleted rows ordered by received time descending, and
\* total is the filtered count before pagination; 125 rows with per_page 50
\* give 25 rows on page 3.
C9_Pagination ==
    [][/\ Len(OffsetLimit([i \in 1..125 |-> i], Offset(3, 50), 50)) = 25
       /\ \A email \in Addrs, page \in 1..MaxPage, per_page \in 1..MaxPerPage,
             query \in Queries :
            (/\ resp'.op = "get_emails" /\ resp'.status = 200
             /\ resp'.page = page /\ resp'.per_page = per_page
             /\ \E ord \in OrderByReceivedDesc(EmailQuery(UserByEmail(email), query)) :
                   get_emails(email, page, per_page, query, ord)) =>
                LET rows == FilteredRows(email, query)
                    total == Cardinality(rows)
                IN  /\ resp'.total = total
                    /\ Len(resp'.emails) =
                          Max(0, Min(page * per_page, total) - (page - 1) * per_page)
                    /\ IsSliceAt(resp'.emails, rows, (page - 1) * per_page)]_vars

\* the last, partial page: 3 filtered rows, per_page 2, page 2 returns 1 row
C9_Witness ==
    /\ resp.op = "get_emails" /\ resp.status = 200
    /\ resp.page = 2 /\ resp.per_page = 2 /\ resp.total = 3
    /\ Len(resp.emails) = 1

\* query occurs in text as a contiguous run of characters
Occurs(text, query) ==
    \E i \in 0..(Len(text) - Len(query)) :
        \A k \in 1..Len(query) : text[i + k] = query[k]

\* the rows of email's owner that are not deleted and whose subject, sender or
\* body text contains query
MatchingRows(email, query) ==
    {i \in 1..Len(emails) :
        /\ emails[i].user_id = RecordOf(email)
        /\ ~emails[i].is_deleted
        /\ \/ Occurs(emails[i].subject, query)
           \/ Occurs(emails[i].sender, query)
           \/ Occurs(emails[i].body_text, query)}

\* C20: get_emails returns no deleted row and no row of another user, with or
\* without a text filter; with a text filter the rows it returns and counts
\* are exactly the user's non-deleted rows whose subject, sender or body text
\* contains the filter string.
C20_FilteredListing ==
    [][\A email \in Addrs, page \in 1..MaxPage, per_page \in 1..MaxPerPage,
          query \in Queries :
        (/\ resp'.op = "get_emails" /\ resp'.status = 200
         /\ resp'.page = page /\ resp'.per_page = per_page
         /\ \E ord \in OrderByReceivedDesc(EmailQuery(UserByEmail(email), query)) :
               get_emails(email, page, per_page, query, ord)) =>
            /\ \A k \in 1..Len(resp'.emails) :
                  /\ emails[resp'.emails[k]].user_id = RecordOf(email)
                  /\ ~emails[resp'.emails[k]].is_deleted
            /\ query # <<>> =>
                  /\ Range(resp'.emails) \subseteq MatchingRows(email, query)
                  /\ resp'.total = Cardinality(MatchingRows(email, query))]_vars

(***************************************************************************)
(* Claims about the provider-error helpers, checked under SpecNorm         *)
(***************************************************************************)
NotFoundKinds ==
    {"EmailNotFoundError", "DraftNotFoundError", "CalendarEventNotFoundError"}

\* C10: the normalization maps 401 to InvalidTokenError, 403 to
\* AuthorizationError, 404 to a not-found error, 429 to a quota-exceeded error,
\* a timeout to ExternalServiceTimeoutError, a connection failure to
\* ExternalServiceError, and any other non-2xx status to a generic provider
\* error carrying the raw status and body.
C10_ErrorTable ==
    raised.op # "none" =>
        LET e == raised.exc IN
        /\ (signal.kind = "HttpError" /\ signal.status = 401) => e.kind = "InvalidTokenError"
        /\ (signal.kind = "HttpError" /\ signal.status = 403) => e.kind = "AuthorizationError"
        /\ (signal.kind = "HttpError" /\ signal.status = 404) =>
              e.kind \in NotFoundKinds /\ e.status_code = 404
        /\ (signal.kind = "HttpError" /\ signal.status = 429) =>
              e.kind = "GmailQuotaExceededError"
        /\ (signal.kind = "HttpError" /\ signal.status \notin {401, 403, 404, 429}) =>
              /\ e.kind = "GmailAPIError"
              /\ DOMAIN e.details = {"status_code", "body"}
              /\ e.details["status_code"] = signal.status
        /\ signal.kind = "Timeout" => e.kind = "ExternalServiceTimeoutError"
        /\ signal.kind = "ConnectionError" => e.kind = "ExternalServiceError"

(***************************************************************************)
(* Claims about the Gateway's operations, checked under SpecGateway        *)
(***************************************************************************)
\* the kind the normalization table names for a provider status
TableKind(status) ==
    CASE status = 401 -> {"InvalidTokenError"}
      [] status = 403 -> {"AuthorizationError"}
      [] status = 404 -> NotFoundKinds
      [] status = 429 -> {"GmailQuotaExceededError"}

\* C11: a Gateway operation whose remote call fails with a provider status of
\* 401, 403, 404 or 429 hands its caller the failure the normalization table
\* names for that status, an outcome that differs from the one it hands over
\* for each of the other three statuses.
C11_StatusesDistinguishable ==
    (/\ raised.op \in GatewayOps
     /\ signal.kind = "HttpError" /\ signal.status \in {401, 403, 404, 429}) =>
        /\ raised.result.exception \in TableKind(signal.status)
        /\ \A other \in {401, 403, 404, 429} \ {signal.status} :
              LET was == GatewayCall(raised.op, HttpError(other)) IN
               \/ raised.result.value # was.value
               \/ raised.result.exception # was.exception

\* C12: no Gateway operation lets a failure of its remote call leave it as an
\* exception, be it a provider HTTP error, a timeout or a connection failure.
C12_NoRawException ==
    raised.op \in GatewayOps => ~raised.result.raised

(***************************************************************************)
(* Claims about failures surfaced by the routes                            *)
(***************************************************************************)
\* C18: a request whose commit the store refuses for a unique-constraint
\* violation (a duplicate message id in a sync, a duplicate email or provider
\* subject id in the OAuth callback) answers with the conflict status 409.
C18_ConflictStatus ==
    (/\ resp.op \in {"sync_emails", "callback"}
     /\ resp.status >= 400 /\ resp.detail = "IntegrityError") =>
        resp.status = 409

\* C19: GET /calendar/events/{id} for an event the provider reports as not
\* found (HttpError 404) answers 404.
C19_EventNotFound ==
    (/\ resp.op = "get_calendar_event" /\ calls # <<>>
     /\ calls[1].op = "events.get" /\ calls[1].result = "HttpError 404") =>
        resp.status = 404

====
